---- MODULE Spec2Model ----
(***************************************************************************)
(* KD45TrajectoryController: goal acceptance (goalCB) and the real-time    *)
(* control tick (update), with the goal lifecycle, the trajectory exchange *)
(* and the time exchange they share.  Times are integers.                  *)
(***************************************************************************)
EXTENDS Integers, Sequences, FiniteSets, TLC

\* ------------------------------------------------------------------ bounds
MaxGoals == 2      \* goal handles submitted in one run
MaxUptime == 4     \* ticks stop once uptime would pass this

\* ------------------------------------------------------------ fixed sets
joint_names_ == <<"j1", "j2">>
Joints == 1..Len(joint_names_)
NoGoal == 0
GoalIds == 1..MaxGoals

Periods == {1, 2}
ErrNone == [position |-> 0, velocity |-> 0]
ErrPosition == [position |-> -2, velocity |-> 0]
ErrVelocity == [position |-> 0, velocity |-> 2]
\* Every joint exact or off in position, or all joints off in velocity only.
ErrorStates ==
    [Joints -> {ErrNone, ErrPosition}] \cup {[j \in Joints |-> ErrVelocity]}

TolOn == [position |-> 1, velocity |-> 1]
TolPosOnly == [position |-> 1, velocity |-> 0]
TolOff == [position |-> 0, velocity |-> 0]
ReqTolerances ==
    { [state_tolerance |-> TolOn, goal_state_tolerance |-> TolPosOnly, goal_time_tolerance |-> gtt] :
        gtt \in {0, 1} }
ReqNames ==
    { <<>>, <<"j1">>, <<"j1", "j2">>, <<"j2", "j1">>, <<"j1", "jx">>,
      <<"j1", "j1">>, <<"j1", "j2", "jx">> }
ReqDurations == { <<1>>, <<2, 1>> }
ReqDelays == {0, 2}
AllRequests ==
    [joint_names : ReqNames, delay : ReqDelays, durations : ReqDurations,
     tolerances : ReqTolerances, valid : BOOLEAN]
\* Every trajectory shape with the controller's joint names; one shape with
\* each of the other name lists and for the trajectory that cannot be built.
Requests ==
    { r \in AllRequests :
        \/ r.joint_names = joint_names_ /\ r.valid
        \/ /\ r.delay = 0 /\ r.durations = <<1>>
           /\ r.tolerances.goal_time_tolerance = 0
           /\ (r.valid \/ r.joint_names = joint_names_) }

VARIABLES
    running,                    \* isRunning()
    allow_partial_joints_goal_, \* configuration flag
    time_data_,                 \* time exchange: [uptime, period]
    curr_trajectory_box_,       \* trajectory exchange: [id, traj]
    rt_active_goal_,            \* goal id or NoGoal
    successful_joint_traj_,     \* completion flag per joint
    goal_handle_timer_,         \* goal whose status timer is armed, or NoGoal
    realtime_busy_,
    status,                     \* lifecycle state per goal handle
    result,                     \* error code of the terminal result per goal
    nTerminal,                  \* terminal transitions requested per goal
    nextGoal,                   \* id the next goal handle gets
    passed,                     \* per joint: goals whose goal-tolerance check it passed
    elapsed,                    \* sum of the periods of all ticks
    ev,                         \* last handler run: what it was given and the calls it made
    preallocated_result_,       \* per goal handle: its result payload is allocated
    null_deref,                 \* what a write through a null payload pointer does in this build
    faulted,                    \* the process has died on a memory fault
    rt,                         \* update, run statement by statement: position and locals
    nrt                         \* goalCB, run statement by statement: position and locals

vars == << running, allow_partial_joints_goal_, time_data_, curr_trajectory_box_,
           rt_active_goal_, successful_joint_traj_, goal_handle_timer_, realtime_busy_,
           status, result, nTerminal, nextGoal, passed, elapsed, ev,
           preallocated_result_, null_deref, faulted, rt, nrt >>

\* ------------------------------------------------------------- helpers
Abs(x) == IF x < 0 THEN -x ELSE x

Range(s) == { s[k] : k \in 1..Len(s) }

\* A call made by a handler: function, joint of the loop (0 outside it), goal, code.
Call(f, j, g, code) == [f |-> f, j |-> j, g |-> g, code |-> code]

NoFlags == [j \in Joints |-> FALSE]
NoPassed == [j \in Joints |-> {}]

\* joint_trajectory_controller::internal::mapping(t1, t2): the index in t2 of
\* every name of t1; empty when t1 is longer than t2 or a name is not in t2.
mapping(t1, t2) ==
    IF Len(t1) > Len(t2) THEN << >>
    ELSE IF \E k \in 1..Len(t1) : t1[k] \notin Range(t2) THEN << >>
    ELSE [k \in 1..Len(t1) |-> CHOOSE m \in 1..Len(t2) :
                                  /\ t2[m] = t1[k]
                                  /\ \A n \in 1..(m - 1) : t2[n] # t1[k]]

\* findSegment: the last segment whose start time is not after t; the
\* end-of-sequence position Len+1 when the list is empty or t precedes it.
findSegment(segs, t) ==
    IF Len(segs) = 0 \/ t < segs[1].start THEN Len(segs) + 1
    ELSE LET after == { k \in 1..Len(segs) : t < segs[k].start }
             ub == IF after = {} THEN Len(segs) + 1
                   ELSE CHOOSE k \in after : \A m \in after : k <= m
         IN ub - 1

sample(segs, t) == findSegment(segs, t)

\* checkStateTolerancePerJoint: a threshold <= 0 disables the field.
checkStateTolerancePerJoint(err, tol) ==
    /\ ~(tol.position > 0 /\ Abs(err.position) > tol.position)
    /\ ~(tol.velocity > 0 /\ Abs(err.velocity) > tol.velocity)

\* ------------------------------------------------- goal handle lifecycle
TerminalStates == {"REJECTED", "PREEMPTED", "ABORTED", "SUCCEEDED"}

\* A terminal transition requested on goal g: it takes effect from the
\* state `from` only; the request is counted and logged in any case.
Finish(s, j, g, from, to, code, f) ==
    [s EXCEPT !.status[g] = IF @ = from THEN to ELSE @,
              !.result[g] = IF s.status[g] = from THEN code ELSE @,
              !.nterm[g] = @ + 1,
              !.calls = Append(@, Call(f, j, g, code))]

setRejected(s, g, code) == Finish(s, 0, g, "PENDING", "REJECTED", code, "setRejected")
setCanceled(s, g) == Finish(s, 0, g, "ACTIVE", "PREEMPTED", "NONE", "setCanceled")
setAborted(s, j, g, code) == Finish(s, j, g, "ACTIVE", "ABORTED", code, "setAborted")
setSucceeded(s, g, code) == Finish(s, 0, g, "ACTIVE", "SUCCEEDED", code, "setSucceeded")
setAccepted(s, g) ==
    [s EXCEPT !.status[g] = IF @ = "PENDING" THEN "ACTIVE" ELSE @,
              !.calls = Append(@, Call("setAccepted", 0, g, "NONE"))]

\* The goal-tracking state a handler works on.
Tracking ==
    [active |-> rt_active_goal_, flags |-> successful_joint_traj_, status |-> status,
     result |-> result, nterm |-> nTerminal, passed |-> passed,
     timer |-> goal_handle_timer_, calls |-> << >>, ret |-> FALSE, fault |-> FALSE]

\* ------------------------------------------------ update: per-joint checks
\* rt_active_goal_.reset(); successful_joint_traj_.reset();
ClearTracking(s) ==
    [s EXCEPT !.active = NoGoal, !.flags = NoFlags]

\* Variant: the abort leaves the goal tracked as active.
AbortPathKeepsActive(s, i, g) ==
    setAborted(s, i, g, "PATH_TOLERANCE_VIOLATED")

\* Path tolerance of joint i failed inside a segment of goal g.
AbortPath(s, i, g) ==
    IF preallocated_result_[g]
    THEN ClearTracking(setAborted(s, i, g, "PATH_TOLERANCE_VIOLATED"))
    ELSE s

\* Variant: the abort leaves the goal tracked and the flags set.
AbortGoalKeepsTracking(s, i, g) ==
    setAborted(s, i, g, "GOAL_TOLERANCE_VIOLATED")

\* preallocated_result_->error_code = ... through a null payload pointer:
\* the process dies on the write, or the write lands nowhere that matters and
\* the goal is aborted with no result.
NullDereference(s, i, g) ==
    IF null_deref = "fault"
    THEN [s EXCEPT !.fault = TRUE, !.ret = TRUE]
    ELSE ClearTracking(setAborted(s, i, g, "NONE"))

\* Goal tolerance of joint i failed after the grace window of goal g.
AbortGoal(s, i, g) ==
    IF preallocated_result_[g]
    THEN ClearTracking(setAborted(s, i, g, "GOAL_TOLERANCE_VIOLATED"))
    ELSE NullDereference(s, i, g)

\* successful_joint_traj_[i] = 1, on a passed goal-tolerance check of goal g.
MarkJoint(s, i, g) ==
    [s EXCEPT !.flags[i] = TRUE, !.passed[i] = @ \cup {g}]

\* A call of checkStateTolerancePerJoint for joint i of goal g, with its outcome.
Checked(s, kind, i, g, ok) ==
    [s EXCEPT !.calls = Append(@, Call(kind, i, g, IF ok THEN "PASS" ELSE "FAIL"))]

\* Currently executing a segment: check path tolerances.
CheckPath(s, i, seg, err) ==
    LET ok == checkStateTolerancePerJoint(err, seg.tol.state_tolerance)
        c == Checked(s, "checkPath", i, seg.gh, ok)
    IN IF ~ok THEN AbortPath(c, i, seg.gh) ELSE c

\* Variant: the grace window never ends.
InGraceForever(uptime, seg) == TRUE

\* Variant: the grace window includes its end.
InGraceInclusive(uptime, seg) == uptime <= seg.end + seg.tol.goal_time_tolerance

\* Still have some time left to meet the goal state tolerances.
InGrace(uptime, seg) == uptime < seg.end + seg.tol.goal_time_tolerance

\* Finished executing last segment: check goal tolerances.
CheckGoal(s, i, seg, uptime, err) ==
    LET inside_goal_tolerances == checkStateTolerancePerJoint(err, seg.tol.goal_state_tolerance)
        c == Checked(s, "checkGoal", i, seg.gh, inside_goal_tolerances)
    IN IF inside_goal_tolerances THEN MarkJoint(c, i, seg.gh)
       ELSE IF InGrace(uptime, seg) THEN c
       ELSE AbortGoal(c, i, seg.gh)

\* Variant: a segment is supervised whenever it has an owning goal.
SuperviseAnyOwner(s, i, segs, it, uptime, err) ==
    LET seg == segs[it]
    IN IF seg.gh # NoGoal
       THEN IF uptime < seg.end THEN CheckPath(s, i, seg, err)
            ELSE IF it = Len(segs) THEN CheckGoal(s, i, seg, uptime, err)
            ELSE s
       ELSE s

\* The supervision of joint i on its sampled segment (position it of segs).
Supervise(s, i, segs, it, uptime, err) ==
    LET seg == segs[it]
        rt_segment_goal == seg.gh
    IN IF rt_segment_goal # NoGoal /\ rt_segment_goal = s.active
       THEN IF uptime < seg.end THEN CheckPath(s, i, seg, err)
            ELSE IF it = Len(segs) THEN CheckGoal(s, i, seg, uptime, err)
            ELSE s
       ELSE s

\* Variant: the loop goes on to the next joint.
NoTrajectoryContinue(s) == s

\* No trajectory defined at current time: update returns.
NoTrajectory(s) == [s EXCEPT !.ret = TRUE]

\* One iteration of the loop over the joints: sample, then supervise.
JointStep(s, i, traj, uptime, err) ==
    LET it == sample(traj[i], uptime)
    IN IF it = Len(traj[i]) + 1
       THEN NoTrajectory(s)
       ELSE Supervise(s, i, traj[i], it, uptime, err[i])

\* The tracking state after the iterations of joints 1..n (p, the state after
\* joint n - 1, is bound as a value).
RECURSIVE JointLoop(_, _, _, _, _)
JointLoop(s, n, traj, uptime, err) ==
    IF n = 0 THEN s
    ELSE CHOOSE q \in { IF p.ret THEN p ELSE JointStep(p, n, traj, uptime, err) :
                           p \in {JointLoop(s, n - 1, traj, uptime, err)} } : TRUE

AllJointsSuccessful(s) ==
    Cardinality({ j \in Joints : s.flags[j] }) = Len(joint_names_)

\* Variant: the succeeded goal stays tracked as active.
CompletionKeepsActive(s) ==
    IF s.active # NoGoal /\ AllJointsSuccessful(s)
    THEN setSucceeded(s, s.active, "SUCCESSFUL")
    ELSE s

\* If there is an active goal and all segments finished successfully then
\* set goal as succeeded.
Completion(s) ==
    IF s.active # NoGoal /\ preallocated_result_[s.active] /\ AllJointsSuccessful(s)
    THEN ClearTracking(setSucceeded(s, s.active, "SUCCESSFUL"))
    ELSE s

\* Variant: no command in a tick that aborted the goal.
updateCommandUnlessAborted(s) ==
    IF \E k \in 1..Len(s.calls) : s.calls[k].f = "setAborted"
    THEN s
    ELSE [s EXCEPT !.calls = Append(@, Call("updateCommand", 0, NoGoal, "NONE"))]

\* Hardware interface adapter: generate and send commands.
updateCommand(s) ==
    [s EXCEPT !.calls = Append(@, Call("updateCommand", 0, NoGoal, "NONE"))]

\* Set action feedback.
Feedback(s) ==
    IF s.active # NoGoal
    THEN [s EXCEPT !.calls = Append(@, Call("setFeedback", 0, s.active, "NONE"))]
    ELSE s

publishState(s) ==
    [s EXCEPT !.calls = Append(@, Call("publishState", 0, NoGoal, "NONE"))]

\* The tracking state at the end of a tick.
UpdateResult(s, traj, uptime, err) ==
    CHOOSE q \in { IF l.ret THEN l
                   ELSE publishState(Feedback(updateCommand(Completion(l)))) :
                       l \in {JointLoop(s, Len(joint_names_), traj, uptime, err)} } : TRUE

\* Variant: the uptime is the period, not the accumulated time.
NewUptimeNoSum(period) == period

NewUptime(period) == time_data_.uptime + period

update(period, err) ==
    LET traj == curr_trajectory_box_.traj
        uptime == NewUptime(period)
    IN /\ running /\ ~faulted
       /\ rt.pc = "idle" /\ nrt.pc = "idle"
       /\ uptime <= MaxUptime
       /\ time_data_' = [uptime |-> uptime, period |-> period]
       /\ elapsed' = elapsed + period
       /\ \E r \in {UpdateResult(Tracking, traj, uptime, err)} :
             /\ faulted' = r.fault
             /\ realtime_busy_' = r.ret
             /\ rt_active_goal_' = r.active
             /\ successful_joint_traj_' = r.flags
             /\ passed' = r.passed
             /\ status' = r.status
             /\ result' = r.result
             /\ nTerminal' = r.nterm
             /\ ev' = [op |-> "update", was |-> rt_active_goal_, goal |-> NoGoal,
                       in |-> << >>,
                       fetched |-> curr_trajectory_box_.id, early |-> r.ret,
                       calls |-> r.calls]
       /\ UNCHANGED << running, allow_partial_joints_goal_, curr_trajectory_box_,
                       goal_handle_timer_, nextGoal, preallocated_result_, null_deref,
                       rt, nrt >>

\* ------------------------------------------------- trajectory exchange
DefaultTolerances ==
    [state_tolerance |-> TolOff, goal_state_tolerance |-> TolOff, goal_time_tolerance |-> 0]

\* The hold trajectory installed when the controller starts: one segment per
\* joint, owned by no goal.
HoldTrajectory(t) ==
    [j \in Joints |-> << [start |-> t, end |-> t, gh |-> NoGoal, tol |-> DefaultTolerances] >>]

RECURSIVE SumTo(_, _)
SumTo(durs, k) == IF k = 0 THEN 0 ELSE durs[k] + SumTo(durs, k - 1)

\* The segments of a request that starts at time t0, owned by goal g.
NewSegments(req, t0, g) ==
    [k \in 1..Len(req.durations) |->
        [start |-> t0 + SumTo(req.durations, k - 1),
         end |-> t0 + SumTo(req.durations, k),
         gh |-> g, tol |-> req.tolerances]]

\* The current trajectory of a joint with its segments from position first on
\* handed to goal g.
Relabel(cur, first, g) ==
    [k \in 1..Len(cur) |-> IF k >= first THEN [cur[k] EXCEPT !.gh = g] ELSE cur[k]]

\* The trajectory a request gives joint j.  A joint the request names: the
\* segments of the current trajectory still to run before the request starts,
\* with the owner they have, then the new segments.  A joint it does not name:
\* the current trajectory, its segments from the next tick on handed to g.
JointTrajectory(req, g, j, next_update_uptime) ==
    LET cur == curr_trajectory_box_.traj[j]
        t0 == next_update_uptime + req.delay
        first == findSegment(cur, next_update_uptime)
        last == findSegment(cur, t0)
    IN IF j \notin Range(mapping(req.joint_names, joint_names_))
       THEN Relabel(cur, first, g)
       ELSE IF first = Len(cur) + 1 \/ last = Len(cur) + 1 THEN << >>
       ELSE SubSeq(cur, first, last) \o NewSegments(req, t0, g)

\* updateTrajectoryCommand: [ok, box], box being the exchange's content after it.
updateTrajectoryCommand(req, g) ==
    LET next_update_uptime == time_data_.uptime + time_data_.period
        traj == [j \in Joints |-> JointTrajectory(req, g, j, next_update_uptime)]
        ok == running /\ req.valid /\ \A j \in Joints : Len(traj[j]) > 0
    IN [ok |-> ok,
        box |-> IF ok THEN [id |-> g, traj |-> traj] ELSE curr_trajectory_box_]

\* ---------------------------------------------------------------- goalCB
\* preemptActiveGoal: cancel the active goal, if any, and stop tracking it.
preemptActiveGoal(s) ==
    IF s.active # NoGoal
    THEN [setCanceled(s, s.active) EXCEPT !.active = NoGoal]
    ELSE s

\* The preconditions of goalCB: the error code of the rejection, or "OK".
Validate(req) ==
    IF ~running THEN "INVALID_GOAL"
    ELSE IF ~allow_partial_joints_goal_ /\ Len(req.joint_names) # Len(joint_names_)
         THEN "INVALID_JOINTS"
    ELSE IF Len(mapping(req.joint_names, joint_names_)) = 0
         THEN "INVALID_JOINTS"
    ELSE "OK"

\* Variant: the new goal is accepted before the active one is preempted.
AcceptGoalBeforePreempt(s, g) ==
    [preemptActiveGoal(setAccepted(s, g)) EXCEPT !.active = g, !.timer = g]

\* Accept new goal.
AcceptGoal(s, g) ==
    [setAccepted(preemptActiveGoal(s), g) EXCEPT !.active = g, !.timer = g]

\* Variant: the active goal is preempted before the trajectory update is known
\* to have failed.
RejectGoalAfterPreempt(s, g) ==
    setRejected(preemptActiveGoal(s), g, "INVALID_GOAL")

\* Reject invalid goal.
RejectGoal(s, g) == setRejected(s, g, "INVALID_GOAL")

\* The tracking state goalCB leaves for goal handle g, given the outcome u
\* of updateTrajectoryCommand.
GoalResult(s, req, g, u) ==
    LET v == Validate(req)
    IN IF v # "OK" THEN setRejected(s, g, v)
       ELSE IF u.ok THEN AcceptGoal(s, g)
       ELSE RejectGoal(s, g)

\* The trajectory exchange after goalCB.
GoalBox(req, u) ==
    IF Validate(req) = "OK" THEN u.box ELSE curr_trajectory_box_

\* goalCB on a new goal handle g.
goalCB(req) ==
    LET g == nextGoal
        pending == [Tracking EXCEPT !.status[g] = "PENDING"]
    IN /\ nextGoal <= MaxGoals /\ ~faulted
       /\ rt.pc = "idle" /\ nrt.pc = "idle"
       /\ nextGoal' = nextGoal + 1
       /\ \E u \in {updateTrajectoryCommand(req, g)} :
             /\ curr_trajectory_box_' = GoalBox(req, u)
             /\ \E r \in {GoalResult(pending, req, g, u)} :
                   /\ rt_active_goal_' = r.active
                   /\ goal_handle_timer_' = r.timer
                   /\ successful_joint_traj_' = r.flags
                   /\ passed' = r.passed
                   /\ status' = r.status
                   /\ result' = r.result
                   /\ nTerminal' = r.nterm
                   /\ ev' = [op |-> "goalCB", was |-> rt_active_goal_, goal |-> g,
                             in |-> req.joint_names,
                             fetched |-> NoGoal, early |-> FALSE, calls |-> r.calls]
       /\ UNCHANGED << running, allow_partial_joints_goal_, time_data_, realtime_busy_,
                       elapsed, preallocated_result_, null_deref, faulted, rt, nrt >>

\* -------------------------------------------------------------- lifecycle
\* The controller starts: uptime 0 and the hold trajectory.
starting ==
    /\ ~running
    /\ rt.pc = "idle" /\ nrt.pc = "idle"
    /\ running' = TRUE
    /\ time_data_' = [uptime |-> 0, period |-> 0]
    /\ curr_trajectory_box_' = [id |-> NoGoal, traj |-> HoldTrajectory(0)]
    /\ ev' = [op |-> "starting", was |-> rt_active_goal_, goal |-> NoGoal, in |-> << >>,
              fetched |-> NoGoal, early |-> FALSE, calls |-> << >>]
    /\ UNCHANGED << allow_partial_joints_goal_, rt_active_goal_, successful_joint_traj_,
                    goal_handle_timer_, realtime_busy_, status, result, nTerminal,
                    nextGoal, passed, elapsed, preallocated_result_, null_deref, faulted,
                    rt, nrt >>

\* update and goalCB not executing.  planned: the uptime the trajectory in
\* the exchange was built to be sampled from.
RtIdle ==
    [pc |-> "idle", i |-> 0, traj |-> << >>, planned |-> 0, uptime |-> 0, period |-> 0,
     err |-> << >>, goal |-> NoGoal, line |-> 0, read |-> {}, target |-> NoGoal,
     written |-> {}]
NrtIdle == [pc |-> "idle", g |-> NoGoal, planned |-> 0]

\* The controller after construction, before any goal handle exists.
Constructed ==
    /\ running = FALSE
    /\ allow_partial_joints_goal_ \in BOOLEAN
    /\ time_data_ = [uptime |-> 0, period |-> 0]
    /\ curr_trajectory_box_ = [id |-> NoGoal, traj |-> [j \in Joints |-> << >>]]
    /\ rt_active_goal_ = NoGoal
    /\ successful_joint_traj_ = NoFlags
    /\ goal_handle_timer_ = NoGoal
    /\ realtime_busy_ = FALSE
    /\ status = [g \in GoalIds |-> "NONE"]
    /\ result = [g \in GoalIds |-> "NONE"]
    /\ nTerminal = [g \in GoalIds |-> 0]
    /\ nextGoal = 1
    /\ passed = NoPassed
    /\ elapsed = 0
    /\ ev = [op |-> "init", was |-> NoGoal, goal |-> NoGoal, in |-> << >>,
             fetched |-> NoGoal, early |-> FALSE, calls |-> << >>]
    /\ faulted = FALSE
    /\ rt = RtIdle
    /\ nrt = NrtIdle

\* Every goal handle is made with its result payload allocated.
Init ==
    /\ Constructed
    /\ preallocated_result_ = [g \in GoalIds |-> TRUE]
    /\ null_deref = "fault"

\* Goal handles whose result payload may be missing, in either build.
InitMissing ==
    /\ Constructed
    /\ preallocated_result_ \in [GoalIds -> BOOLEAN]
    /\ null_deref \in {"fault", "proceed"}

GoalStep == \E req \in Requests : goalCB(req)
UpdateStep == \E period \in Periods, err \in ErrorStates : update(period, err)

Next == starting \/ GoalStep \/ UpdateStep

Spec == Init /\ [][Next]_vars

SpecMissing == InitMissing /\ [][Next]_vars

\* The controller manager calls update in every control cycle.
SpecFair == Spec /\ WF_vars(UpdateStep)

\* ------------------------------- update and goalCB, statement by statement
\* update in the real-time thread and goalCB in another thread, interleaved
\* between their reads and writes of the shared state.
RTPeriods == {1}
RTErrors ==
    { [j \in Joints |-> ErrNone], [j \in Joints |-> ErrPosition],
      [j \in Joints |-> IF j = 1 THEN ErrPosition ELSE ErrNone] }
RTRequests ==
    { r \in Requests :
        r.joint_names = joint_names_ /\ r.delay = 0 /\ r.durations = <<1>> }

\* What a statement-level step leaves in ev: its name, the goal update holds
\* from its last test of rt_active_goal_, and the calls the step made.
StepEvent(op, calls) ==
    [op |-> op, was |-> rt_active_goal_, goal |-> rt.goal, in |-> << >>,
     fetched |-> NoGoal, early |-> FALSE, calls |-> calls]

\* The goal handles and the flags as a step leaves them; rt_active_goal_ is
\* written by the step itself.
Commit(r) ==
    /\ successful_joint_traj_' = r.flags
    /\ passed' = r.passed
    /\ status' = r.status
    /\ result' = r.result
    /\ nTerminal' = r.nterm
    /\ goal_handle_timer_' = r.timer
    /\ faulted' = r.fault

\* Variant: the time data is updated before the trajectory is fetched.
TickOrderTimeFirst == <<"time", "fetch">>

\* First get current trajectory, then update time data.
TickOrder == <<"fetch", "time">>

AfterStep(step) == IF TickOrder[1] = step THEN TickOrder[2] ELSE "sample"

\* The loop goes on to the next joint, or ends.
NextJoint ==
    IF rt.i < Len(joint_names_)
    THEN [rt EXCEPT !.pc = "sample", !.i = rt.i + 1, !.goal = NoGoal]
    ELSE [rt EXCEPT !.pc = "complete", !.i = 0, !.goal = NoGoal]

\* realtime_busy_ = true;
rt_begin(period, err) ==
    /\ running /\ ~faulted
    /\ rt.pc = "idle"
    /\ time_data_.uptime + period <= MaxUptime
    /\ realtime_busy_' = TRUE
    /\ rt' = [RtIdle EXCEPT !.pc = TickOrder[1], !.period = period, !.err = err]
    /\ UNCHANGED << running, allow_partial_joints_goal_, time_data_, curr_trajectory_box_,
                    rt_active_goal_, successful_joint_traj_, goal_handle_timer_, status,
                    result, nTerminal, nextGoal, passed, elapsed, ev,
                    preallocated_result_, null_deref, faulted, nrt >>

\* curr_trajectory_box_.get(curr_traj_ptr);
rt_fetch ==
    /\ ~faulted
    /\ rt.pc = "fetch"
    /\ rt' = [rt EXCEPT !.traj = curr_trajectory_box_.traj, !.planned = nrt.planned,
                        !.pc = AfterStep("fetch"), !.i = 1]
    /\ UNCHANGED << running, allow_partial_joints_goal_, time_data_, curr_trajectory_box_,
                    rt_active_goal_, successful_joint_traj_, goal_handle_timer_,
                    realtime_busy_, status, result, nTerminal, nextGoal, passed, elapsed,
                    ev, preallocated_result_, null_deref, faulted, nrt >>

\* time_data.uptime = time_data_.readFromRT()->uptime + period; and its write.
rt_time ==
    /\ ~faulted
    /\ rt.pc = "time"
    /\ time_data_' = [uptime |-> NewUptime(rt.period), period |-> rt.period]
    /\ elapsed' = elapsed + rt.period
    /\ rt' = [rt EXCEPT !.uptime = NewUptime(rt.period), !.pc = AfterStep("time"), !.i = 1]
    /\ UNCHANGED << running, allow_partial_joints_goal_, curr_trajectory_box_,
                    rt_active_goal_, successful_joint_traj_, goal_handle_timer_,
                    realtime_busy_, status, result, nTerminal, nextGoal, passed, ev,
                    preallocated_result_, null_deref, faulted, nrt >>

\* sample for joint rt.i, the return when no segment is found, and the
\* identity test of the segment's goal against rt_active_goal_.
rt_sample ==
    /\ ~faulted
    /\ rt.pc = "sample"
    /\ LET segs == rt.traj[rt.i]
           it == sample(segs, rt.uptime)
       IN rt' = IF it = Len(segs) + 1 THEN RtIdle
                ELSE IF segs[it].gh # NoGoal /\ segs[it].gh = rt_active_goal_
                     THEN [rt EXCEPT !.pc = "check", !.goal = segs[it].gh]
                ELSE NextJoint
    /\ UNCHANGED << running, allow_partial_joints_goal_, time_data_, curr_trajectory_box_,
                    rt_active_goal_, successful_joint_traj_, goal_handle_timer_,
                    realtime_busy_, status, result, nTerminal, nextGoal, passed, elapsed,
                    ev, preallocated_result_, null_deref, faulted, nrt >>

\* The tracking state r records a call of setAborted.
Aborts(r) == \E k \in 1..Len(r.calls) : r.calls[k].f = "setAborted"

\* The tolerance checks of joint rt.i on the segment that passed the identity
\* test, acting on rt_segment_goal (rt.goal): the joint's flag is set, or the
\* goal is aborted and the two resets are still to come, or nothing happens.
rt_check ==
    /\ ~faulted
    /\ rt.pc = "check"
    /\ LET segs == rt.traj[rt.i]
           it == sample(segs, rt.uptime)
           s == [Tracking EXCEPT !.active = rt.goal]
       IN \E r \in {Supervise(s, rt.i, segs, it, rt.uptime, rt.err[rt.i])} :
             /\ Commit([r EXCEPT !.flags = IF Aborts(r) THEN s.flags ELSE @])
             /\ rt' = IF r.ret THEN RtIdle
                      ELSE IF Aborts(r) THEN [rt EXCEPT !.pc = "abort_reset_active"]
                      ELSE NextJoint
             /\ ev' = StepEvent("rt_check", r.calls)
    /\ UNCHANGED << running, allow_partial_joints_goal_, time_data_, curr_trajectory_box_,
                    rt_active_goal_, realtime_busy_, nextGoal, elapsed,
                    preallocated_result_, null_deref, nrt >>

\* rt_active_goal_.reset(); after setAborted.
rt_abort_reset_active ==
    /\ ~faulted
    /\ rt.pc = "abort_reset_active"
    /\ rt_active_goal_' = NoGoal
    /\ rt' = [rt EXCEPT !.pc = "abort_reset_flags"]
    /\ UNCHANGED << running, allow_partial_joints_goal_, time_data_, curr_trajectory_box_,
                    successful_joint_traj_, goal_handle_timer_, realtime_busy_, status,
                    result, nTerminal, nextGoal, passed, elapsed, ev,
                    preallocated_result_, null_deref, faulted, nrt >>

\* successful_joint_traj_.reset(); after setAborted.  The loop goes on.
rt_abort_reset_flags ==
    /\ ~faulted
    /\ rt.pc = "abort_reset_flags"
    /\ successful_joint_traj_' = NoFlags
    /\ rt' = NextJoint
    /\ UNCHANGED << running, allow_partial_joints_goal_, time_data_, curr_trajectory_box_,
                    rt_active_goal_, goal_handle_timer_, realtime_busy_, status,
                    result, nTerminal, nextGoal, passed, elapsed, ev,
                    preallocated_result_, null_deref, faulted, nrt >>

\* RealtimeGoalHandlePtr current_active_goal(rt_active_goal_); and the
\* completion test on that copy (rt.goal).
rt_complete ==
    /\ ~faulted
    /\ rt.pc = "complete"
    /\ rt' = IF /\ rt_active_goal_ # NoGoal
                /\ preallocated_result_[rt_active_goal_]
                /\ AllJointsSuccessful(Tracking)
             THEN [rt EXCEPT !.pc = "succeed", !.goal = rt_active_goal_]
             ELSE [rt EXCEPT !.pc = "command"]
    /\ UNCHANGED << running, allow_partial_joints_goal_, time_data_, curr_trajectory_box_,
                    rt_active_goal_, successful_joint_traj_, goal_handle_timer_,
                    realtime_busy_, status, result, nTerminal, nextGoal, passed, elapsed,
                    ev, preallocated_result_, null_deref, faulted, nrt >>

\* current_active_goal->setSucceeded(current_active_goal->preallocated_result_);
rt_succeed ==
    /\ ~faulted
    /\ rt.pc = "succeed"
    /\ \E r \in {setSucceeded(Tracking, rt.goal, "SUCCESSFUL")} :
          /\ Commit(r)
          /\ ev' = StepEvent("rt_succeed", r.calls)
    /\ rt' = [rt EXCEPT !.pc = "succeed_reset_active"]
    /\ UNCHANGED << running, allow_partial_joints_goal_, time_data_, curr_trajectory_box_,
                    rt_active_goal_, realtime_busy_, nextGoal, elapsed,
                    preallocated_result_, null_deref, nrt >>

\* rt_active_goal_.reset(); after setSucceeded.
rt_succeed_reset_active ==
    /\ ~faulted
    /\ rt.pc = "succeed_reset_active"
    /\ rt_active_goal_' = NoGoal
    /\ rt' = [rt EXCEPT !.pc = "succeed_reset_flags"]
    /\ UNCHANGED << running, allow_partial_joints_goal_, time_data_, curr_trajectory_box_,
                    successful_joint_traj_, goal_handle_timer_, realtime_busy_, status,
                    result, nTerminal, nextGoal, passed, elapsed, ev,
                    preallocated_result_, null_deref, faulted, nrt >>

\* successful_joint_traj_.reset(); after setSucceeded.
rt_succeed_reset_flags ==
    /\ ~faulted
    /\ rt.pc = "succeed_reset_flags"
    /\ successful_joint_traj_' = NoFlags
    /\ rt' = [rt EXCEPT !.pc = "command", !.goal = NoGoal]
    /\ UNCHANGED << running, allow_partial_joints_goal_, time_data_, curr_trajectory_box_,
                    rt_active_goal_, goal_handle_timer_, realtime_busy_, status,
                    result, nTerminal, nextGoal, passed, elapsed, ev,
                    preallocated_result_, null_deref, faulted, nrt >>

\* hw_iface_adapter_.updateCommand(...);
rt_command ==
    /\ ~faulted
    /\ rt.pc = "command"
    /\ ev' = StepEvent("rt_command", updateCommand(Tracking).calls)
    /\ rt' = [rt EXCEPT !.pc = "feedback"]
    /\ UNCHANGED << running, allow_partial_joints_goal_, time_data_, curr_trajectory_box_,
                    rt_active_goal_, successful_joint_traj_, goal_handle_timer_,
                    realtime_busy_, status, result, nTerminal, nextGoal, passed, elapsed,
                    preallocated_result_, null_deref, faulted, nrt >>

\* The fields of the feedback payload written one by one, each through
\* rt_active_goal_ read again.
FeedbackFields == 8

\* An access through rt_active_goal_ finds it null, in a build where that
\* kills the process.
NullActive == rt_active_goal_ = NoGoal /\ null_deref = "fault"

\* if (rt_active_goal_ ...: the first read of rt_active_goal_ (rt.goal).
rt_feedback_check ==
    /\ ~faulted
    /\ rt.pc = "feedback"
    /\ rt' = IF rt_active_goal_ # NoGoal
             THEN [rt EXCEPT !.pc = "feedback_payload", !.goal = rt_active_goal_]
             ELSE [rt EXCEPT !.pc = "publish"]
    /\ UNCHANGED << running, allow_partial_joints_goal_, time_data_, curr_trajectory_box_,
                    rt_active_goal_, successful_joint_traj_, goal_handle_timer_,
                    realtime_busy_, status, result, nTerminal, nextGoal, passed, elapsed,
                    ev, preallocated_result_, null_deref, faulted, nrt >>

\* ... && rt_active_goal_->preallocated_feedback_): rt_active_goal_ read
\* again.  A goal has its feedback payload; through a null pointer the
\* process dies, or the test reads anything.
rt_feedback_payload ==
    /\ ~faulted
    /\ rt.pc = "feedback_payload"
    /\ IF NullActive
       THEN faulted' = TRUE /\ rt' = rt
       ELSE /\ faulted' = faulted
            /\ \E found \in IF rt_active_goal_ # NoGoal THEN {TRUE} ELSE BOOLEAN :
                  rt' = IF found
                        THEN [rt EXCEPT !.pc = "feedback_write", !.line = 1]
                        ELSE [rt EXCEPT !.pc = "publish", !.goal = NoGoal]
    /\ UNCHANGED << running, allow_partial_joints_goal_, time_data_, curr_trajectory_box_,
                    rt_active_goal_, successful_joint_traj_, goal_handle_timer_,
                    realtime_busy_, status, result, nTerminal, nextGoal, passed, elapsed,
                    ev, preallocated_result_, null_deref, nrt >>

\* One field of the feedback payload written through rt_active_goal_, read
\* again (rt.written: the goals whose payload this tick has written).  Through
\* a null pointer the process dies, or the write goes unnoticed.
rt_feedback_write ==
    /\ ~faulted
    /\ rt.pc = "feedback_write"
    /\ IF NullActive
       THEN faulted' = TRUE /\ rt' = rt
       ELSE /\ faulted' = faulted
            /\ rt' = [rt EXCEPT !.written = @ \cup ({rt_active_goal_} \ {NoGoal}),
                                !.line = IF @ < FeedbackFields THEN @ + 1 ELSE 0,
                                !.pc = IF rt.line < FeedbackFields THEN @ ELSE "feedback_emit"]
    /\ UNCHANGED << running, allow_partial_joints_goal_, time_data_, curr_trajectory_box_,
                    rt_active_goal_, successful_joint_traj_, goal_handle_timer_,
                    realtime_busy_, status, result, nTerminal, nextGoal, passed, elapsed,
                    ev, preallocated_result_, null_deref, nrt >>

\* rt_active_goal_->setFeedback(...): the read of rt_active_goal_ for the
\* handle the call is made on (rt.target).  The handle and the argument are
\* read in either order.
rt_feedback_handle ==
    /\ ~faulted
    /\ rt.pc = "feedback_emit"
    /\ "handle" \notin rt.read
    /\ rt' = [rt EXCEPT !.target = rt_active_goal_, !.read = @ \cup {"handle"}]
    /\ UNCHANGED << running, allow_partial_joints_goal_, time_data_, curr_trajectory_box_,
                    rt_active_goal_, successful_joint_traj_, goal_handle_timer_,
                    realtime_busy_, status, result, nTerminal, nextGoal, passed, elapsed,
                    ev, preallocated_result_, null_deref, faulted, nrt >>

\* ...(rt_active_goal_->preallocated_feedback_): the read of rt_active_goal_
\* for the argument of the call.
rt_feedback_argument ==
    /\ ~faulted
    /\ rt.pc = "feedback_emit"
    /\ "argument" \notin rt.read
    /\ IF NullActive
       THEN faulted' = TRUE /\ rt' = rt
       ELSE /\ faulted' = faulted
            /\ rt' = [rt EXCEPT !.read = @ \cup {"argument"}]
    /\ UNCHANGED << running, allow_partial_joints_goal_, time_data_, curr_trajectory_box_,
                    rt_active_goal_, successful_joint_traj_, goal_handle_timer_,
                    realtime_busy_, status, result, nTerminal, nextGoal, passed, elapsed,
                    ev, preallocated_result_, null_deref, nrt >>

\* The call of setFeedback on the handle read (rt.target).  On a null handle
\* the process dies, or nothing is emitted.
rt_feedback_emit ==
    /\ ~faulted
    /\ rt.pc = "feedback_emit"
    /\ rt.read = {"handle", "argument"}
    /\ IF rt.target = NoGoal /\ null_deref = "fault"
       THEN faulted' = TRUE /\ rt' = rt /\ ev' = ev
       ELSE /\ faulted' = faulted
            /\ ev' = StepEvent("rt_feedback_emit",
                               Feedback([Tracking EXCEPT !.active = rt.target]).calls)
            /\ rt' = [rt EXCEPT !.pc = "publish", !.goal = NoGoal, !.target = NoGoal,
                                !.read = {}, !.written = {}]
    /\ UNCHANGED << running, allow_partial_joints_goal_, time_data_, curr_trajectory_box_,
                    rt_active_goal_, successful_joint_traj_, goal_handle_timer_,
                    realtime_busy_, status, result, nTerminal, nextGoal, passed, elapsed,
                    preallocated_result_, null_deref, nrt >>

\* publishState(time_data.uptime); realtime_busy_ = false;
rt_publish ==
    /\ ~faulted
    /\ rt.pc = "publish"
    /\ realtime_busy_' = FALSE
    /\ ev' = StepEvent("rt_publish", publishState(Tracking).calls)
    /\ rt' = RtIdle
    /\ UNCHANGED << running, allow_partial_joints_goal_, time_data_, curr_trajectory_box_,
                    rt_active_goal_, successful_joint_traj_, goal_handle_timer_, status,
                    result, nTerminal, nextGoal, passed, elapsed, preallocated_result_,
                    null_deref, faulted, nrt >>

\* goalCB up to updateTrajectoryCommand: the goal is rejected, or its
\* trajectory is in the exchange.
nrt_begin(req) ==
    LET g == nextGoal
        pending == [Tracking EXCEPT !.status[g] = "PENDING"]
    IN /\ ~faulted
       /\ nrt.pc = "idle"
       /\ nextGoal <= MaxGoals
       /\ nextGoal' = nextGoal + 1
       /\ \E u \in {updateTrajectoryCommand(req, g)} :
             /\ curr_trajectory_box_' = GoalBox(req, u)
             /\ IF Validate(req) = "OK" /\ u.ok
                THEN /\ Commit(pending)
                     /\ ev' = StepEvent("nrt_begin", << >>)
                     /\ nrt' = [pc |-> "preempt", g |-> g,
                                planned |-> time_data_.uptime + time_data_.period]
                ELSE \E r \in {GoalResult(pending, req, g, u)} :
                        /\ Commit(r)
                        /\ ev' = StepEvent("nrt_begin", r.calls)
                        /\ nrt' = nrt
       /\ UNCHANGED << running, allow_partial_joints_goal_, time_data_, rt_active_goal_,
                       realtime_busy_, elapsed, preallocated_result_, null_deref, rt >>

\* preemptActiveGoal();
nrt_preempt ==
    /\ ~faulted
    /\ nrt.pc = "preempt"
    /\ \E r \in {preemptActiveGoal(Tracking)} :
          /\ Commit(r)
          /\ rt_active_goal_' = r.active
          /\ ev' = StepEvent("nrt_preempt", r.calls)
    /\ nrt' = [nrt EXCEPT !.pc = "accept"]
    /\ UNCHANGED << running, allow_partial_joints_goal_, time_data_, curr_trajectory_box_,
                    realtime_busy_, nextGoal, elapsed, preallocated_result_, null_deref,
                    rt >>

\* gh.setAccepted();
nrt_accept ==
    /\ ~faulted
    /\ nrt.pc = "accept"
    /\ \E r \in {setAccepted(Tracking, nrt.g)} :
          /\ Commit(r)
          /\ ev' = StepEvent("nrt_accept", r.calls)
    /\ nrt' = [nrt EXCEPT !.pc = "assign"]
    /\ UNCHANGED << running, allow_partial_joints_goal_, time_data_, curr_trajectory_box_,
                    rt_active_goal_, realtime_busy_, nextGoal, elapsed,
                    preallocated_result_, null_deref, rt >>

\* rt_active_goal_ = rt_goal;
nrt_assign ==
    /\ ~faulted
    /\ nrt.pc = "assign"
    /\ rt_active_goal_' = nrt.g
    /\ nrt' = [nrt EXCEPT !.pc = "timer"]
    /\ UNCHANGED << running, allow_partial_joints_goal_, time_data_, curr_trajectory_box_,
                    successful_joint_traj_, goal_handle_timer_, realtime_busy_, status,
                    result, nTerminal, nextGoal, passed, elapsed, ev,
                    preallocated_result_, null_deref, faulted, rt >>

\* goal_handle_timer_ = createTimer(..., rt_goal); goal_handle_timer_.start();
nrt_timer ==
    /\ ~faulted
    /\ nrt.pc = "timer"
    /\ goal_handle_timer_' = nrt.g
    /\ nrt' = [nrt EXCEPT !.pc = "idle", !.g = NoGoal]
    /\ UNCHANGED << running, allow_partial_joints_goal_, time_data_, curr_trajectory_box_,
                    rt_active_goal_, successful_joint_traj_, realtime_busy_, status,
                    result, nTerminal, nextGoal, passed, elapsed, ev,
                    preallocated_result_, null_deref, faulted, rt >>

\* Goals name every joint; result payloads allocated; an access through a
\* null goal pointer dies or goes unnoticed.
InitRT ==
    /\ Constructed
    /\ ~allow_partial_joints_goal_
    /\ preallocated_result_ = [g \in GoalIds |-> TRUE]
    /\ null_deref \in {"fault", "proceed"}

NextRT ==
    \/ starting
    \/ \E req \in RTRequests : nrt_begin(req)
    \/ nrt_preempt
    \/ nrt_accept
    \/ nrt_assign
    \/ nrt_timer
    \/ \E period \in RTPeriods, err \in RTErrors : rt_begin(period, err)
    \/ rt_fetch
    \/ rt_time
    \/ rt_sample
    \/ rt_check
    \/ rt_abort_reset_active
    \/ rt_abort_reset_flags
    \/ rt_complete
    \/ rt_succeed
    \/ rt_succeed_reset_active
    \/ rt_succeed_reset_flags
    \/ rt_command
    \/ rt_feedback_check
    \/ rt_feedback_payload
    \/ rt_feedback_write
    \/ rt_feedback_handle
    \/ rt_feedback_argument
    \/ rt_feedback_emit
    \/ rt_publish

SpecRT == InitRT /\ [][NextRT]_vars

TypeOK ==
    /\ running \in BOOLEAN
    /\ rt_active_goal_ \in GoalIds \cup {NoGoal}
    /\ time_data_.uptime \in 0..MaxUptime

\* ------------------------------------------------------------ properties
\* The calls of the last handler run that satisfy P.
IsCall(k, f, code) == ev.calls[k].f = f /\ ev.calls[k].code = code
CallIndices == 1..Len(ev.calls)

\* After a tick: the segment the tick sampled for joint j (the tick leaves the
\* trajectory exchange alone and time_data_ holds the tick's uptime).
Uncovered(j) ==
    sample(curr_trajectory_box_.traj[j], time_data_.uptime) = Len(curr_trajectory_box_.traj[j]) + 1
SampledSegment(j) ==
    curr_trajectory_box_.traj[j][sample(curr_trajectory_box_.traj[j], time_data_.uptime)]

\* C1: a tick in which the path-tolerance check of a joint fails, on a segment
\* owned by the active goal and before the segment's end, ends with that goal
\* ABORTED with PATH_TOLERANCE_VIOLATED and no active goal.
C1_PathViolationAborts ==
    ev.op = "update" =>
        \A k \in CallIndices :
            IsCall(k, "checkPath", "FAIL") =>
                /\ status[ev.calls[k].g] = "ABORTED"
                /\ result[ev.calls[k].g] = "PATH_TOLERANCE_VIOLATED"
                /\ rt_active_goal_ = NoGoal

C1_Witness ==
    /\ ev.op = "update"
    /\ \E k \in CallIndices :
          /\ IsCall(k, "checkPath", "FAIL")
          /\ ev.calls[k].g = ev.was
          /\ SampledSegment(ev.calls[k].j).gh = ev.was
          /\ time_data_.uptime < SampledSegment(ev.calls[k].j).end

\* C2: a goal is SUCCEEDED only if every joint passed a goal-tolerance check
\* on a segment of that goal while it was the active goal.
C2_SucceededOnlyIfAllJointsPassed ==
    \A g \in GoalIds :
        status[g] = "SUCCEEDED" => \A j \in Joints : g \in passed[j]

\* C3: when the goal-tolerance check of a joint fails on its last segment,
\* owned by the active goal and ended: inside the grace window that joint makes
\* no goal transition in the tick; at or after endTime + goal_time_tolerance the
\* tick ends with the goal ABORTED with GOAL_TOLERANCE_VIOLATED, no active goal
\* and all completion flags cleared.
C3_GraceThenGoalAbort ==
    ev.op = "update" =>
        \A k \in CallIndices :
            IsCall(k, "checkGoal", "FAIL") =>
                LET j == ev.calls[k].j
                    g == ev.calls[k].g
                    seg == SampledSegment(j)
                IN IF time_data_.uptime < seg.end + seg.tol.goal_time_tolerance
                   THEN \A m \in CallIndices : ev.calls[m].j = j => m = k
                   ELSE /\ status[g] = "ABORTED"
                        /\ result[g] = "GOAL_TOLERANCE_VIOLATED"
                        /\ rt_active_goal_ = NoGoal
                        /\ successful_joint_traj_ = NoFlags

C3_Witness ==
    /\ ev.op = "update"
    /\ \E k \in CallIndices :
          /\ IsCall(k, "checkGoal", "FAIL")
          /\ SampledSegment(ev.calls[k].j).tol.goal_time_tolerance = 0
          /\ time_data_.uptime = SampledSegment(ev.calls[k].j).end
          /\ status[ev.calls[k].g] = "ABORTED"

C3_GraceWitness ==
    /\ ev.op = "update"
    /\ \E k \in CallIndices :
          /\ IsCall(k, "checkGoal", "FAIL")
          /\ time_data_.uptime < SampledSegment(ev.calls[k].j).end
                                    + SampledSegment(ev.calls[k].j).tol.goal_time_tolerance
          /\ rt_active_goal_ = ev.calls[k].g

\* The last handler run was a goalCB that accepted its goal.
Accepted == ev.op = "goalCB" /\ \E k \in CallIndices : IsCall(k, "setAccepted", "NONE")

C4_PreemptedBeforeAccept ==
    (Accepted /\ ev.was # NoGoal) =>
        /\ status[ev.was] = "PREEMPTED"
        /\ \E a, b \in CallIndices :
              /\ a < b
              /\ ev.calls[a] = Call("setCanceled", 0, ev.was, "NONE")
              /\ ev.calls[b] = Call("setAccepted", 0, ev.goal, "NONE")
        /\ rt_active_goal_ = ev.goal
        /\ status[ev.goal] = "ACTIVE"
        /\ curr_trajectory_box_.id = ev.goal

C4_NextTickFetchesNew ==
    (Accepted /\ ev'.op = "update") => ev'.fetched = ev.goal

\* C4: a goalCB that accepts goal B while goal A is active cancels A (A is
\* PREEMPTED, not SUCCEEDED) before it accepts B, leaves B the active goal and
\* B's trajectory in the exchange, and the next tick fetches that trajectory.
C4_PreemptThenSampleNew ==
    [] C4_PreemptedBeforeAccept /\ [][C4_NextTickFetchesNew]_vars

C4_Witness ==
    /\ ev.op = "update"
    /\ ev.fetched # NoGoal
    /\ ev.was = ev.fetched
    /\ \E g \in GoalIds : g # ev.fetched /\ status[g] = "PREEMPTED"

\* The joint-name set of a request differs from the controller's joint set:
\* another set of names (a name that is not a controller joint, or a
\* controller joint that is not named), or another number of names.
Differs(names) ==
    \/ Range(names) # Range(joint_names_)
    \/ Len(names) # Len(joint_names_)

RejectedInvalidJoints ==
    /\ ev.calls = << Call("setRejected", 0, ev.goal, "INVALID_JOINTS") >>
    /\ status[ev.goal] = "REJECTED"
    /\ result[ev.goal] = "INVALID_JOINTS"
    /\ curr_trajectory_box_.id # ev.goal

\* C5: with partial-joint goals disallowed, a request whose joint-name set
\* differs from the controller's joint set is rejected with INVALID_JOINTS and
\* installs no trajectory.  Stated of a running controller: one that is not
\* running rejects every request with INVALID_GOAL before it looks at the
\* joint names.
C5_RunningRejectsInvalidJoints ==
    (ev.op = "goalCB" /\ running /\ ~allow_partial_joints_goal_ /\ Differs(ev.in))
        => RejectedInvalidJoints

\* The last handler run was a goalCB that rejected its goal.
Rejected == ev.op = "goalCB" /\ status[ev.goal] = "REJECTED"

\* C6: no goal is given more than one terminal transition.
C6_AtMostOneTerminal ==
    \A g \in GoalIds : nTerminal[g] <= 1

C6_Witness ==
    /\ ev.op = "update"
    /\ \E k \in CallIndices : IsCall(k, "setAborted", "GOAL_TOLERANCE_VIOLATED")
    /\ \E g \in GoalIds : status[g] = "PREEMPTED"

\* A goalCB step that rejects its request changes no goal-tracking state.
C7_RejectionStep ==
    Rejected' =>
        /\ rt_active_goal_' = rt_active_goal_
        /\ successful_joint_traj_' = successful_joint_traj_
        /\ goal_handle_timer_' = goal_handle_timer_
        /\ \A g \in GoalIds \ {nextGoal} :
              status'[g] = status[g] /\ nTerminal'[g] = nTerminal[g]

\* C7: a goalCB that rejects its request leaves the active goal, the status of
\* every other goal, the completion flags and the status timer as they were.
C7_RejectionChangesNothing == [][C7_RejectionStep]_vars

C7_Witness ==
    /\ Rejected
    /\ running
    /\ ev.calls = << Call("setRejected", 0, ev.goal, "INVALID_GOAL") >>
    /\ rt_active_goal_ # NoGoal
    /\ \E j \in Joints : successful_joint_traj_[j]

\* C8: at most one goal is ACTIVE, and a non-null rt_active_goal_ is that goal.
C8_SingleActiveGoal ==
    /\ Cardinality({ g \in GoalIds : status[g] = "ACTIVE" }) <= 1
    /\ rt_active_goal_ # NoGoal => status[rt_active_goal_] = "ACTIVE"

C8_Witness ==
    /\ rt_active_goal_ # NoGoal
    /\ \E g \in GoalIds : status[g] \in {"PREEMPTED", "ABORTED", "SUCCEEDED"}

\* C9: the uptime is the sum of the periods of all ticks so far, ticks that
\* return early or abort a goal included, and the period published is the
\* tick's.
C9_UptimeIsSumOfPeriods ==
    /\ time_data_.uptime = elapsed
    /\ ev.op = "update" => time_data_.period \in Periods

C9_Witness ==
    /\ ev.op = "update"
    /\ ev.early
    /\ time_data_.uptime > time_data_.period

\* C10: a tick in which some joint has no segment at the tick's uptime returns
\* at the first such joint: no updateCommand, no feedback, no published state,
\* and no call made for that joint or a later one.
C10_NoSegmentAbortsTick ==
    (ev.op = "update" /\ \E j \in Joints : Uncovered(j)) =>
        LET first == CHOOSE j \in Joints :
                        Uncovered(j) /\ \A i \in Joints : Uncovered(i) => j <= i
        IN /\ ev.early
           /\ \A k \in CallIndices :
                 /\ ev.calls[k].f \in {"checkPath", "checkGoal", "setAborted"}
                 /\ ev.calls[k].j \in 1..(first - 1)
           /\ ev.was # NoGoal /\ (\A k \in CallIndices : ev.calls[k].f # "setAborted")
                 => status[ev.was] = "ACTIVE" /\ rt_active_goal_ = ev.was

C10_Witness ==
    /\ ev.op = "update"
    /\ ev.early
    /\ ev.was # NoGoal
    /\ rt_active_goal_ = ev.was

\* Every tolerance check and every abort or success of a tick is for the goal
\* that was active when the tick began, none follows an abort in the same
\* tick, and feedback goes to the goal that is active and ACTIVE after it.
C11_ChecksOnlyActive ==
    ev.op = "update" =>
        /\ \A k \in CallIndices :
              ev.calls[k].f \in {"checkPath", "checkGoal", "setAborted", "setSucceeded"} =>
                  /\ ev.was # NoGoal /\ ev.calls[k].g = ev.was
                  /\ \A m \in 1..(k - 1) : ev.calls[m].f # "setAborted"
        /\ \A k \in CallIndices :
              ev.calls[k].f = "setFeedback" =>
                  /\ ev.calls[k].g = rt_active_goal_
                  /\ status[ev.calls[k].g] = "ACTIVE"

\* A tick leaves alone a joint whose sampled segment has no owning goal or one
\* that is not the active goal: no call names the joint and its flag changes
\* only by a reset of all flags.
C11_NotOwnedStep ==
    ev'.op = "update" =>
        \A j \in Joints :
            LET segs == curr_trajectory_box_.traj[j]
                it == sample(segs, time_data_'.uptime)
            IN (it <= Len(segs) /\ (segs[it].gh = NoGoal \/ segs[it].gh # rt_active_goal_)) =>
                  /\ \A k \in 1..Len(ev'.calls) : ev'.calls[k].j # j
                  /\ \/ successful_joint_traj_'[j] = successful_joint_traj_[j]
                     \/ successful_joint_traj_' = NoFlags

\* C11: update checks tolerances, sets flags, aborts and emits feedback only
\* for the current active goal; a segment owned by no goal or by another goal,
\* or sampled after an abort in the same tick, causes no check, no flag change
\* and no transition, and a terminal goal gets no feedback.
C11_OnlyActiveGoalSupervised == [] C11_ChecksOnlyActive /\ [][C11_NotOwnedStep]_vars

\* A tick in which joint 1 aborts the active goal and joint 2, sampled on a
\* segment of that goal, is not checked; no feedback is emitted.
C11_Witness ==
    /\ ev.op = "update" /\ ~ev.early /\ ev.was # NoGoal
    /\ \E k \in CallIndices : ev.calls[k].f = "setAborted" /\ ev.calls[k].j = 1
    /\ ~Uncovered(2) /\ SampledSegment(2).gh = ev.was
    /\ \A k \in CallIndices : ev.calls[k].j # 2 /\ ev.calls[k].f # "setFeedback"

\* The positions in the call log of the last handler run of the calls of f.
CallsOf(f) == { k \in CallIndices : ev.calls[k].f = f }

\* C13: a tick that samples a segment for every joint calls updateCommand
\* exactly once, after every tolerance check, abort and success of the tick,
\* and publishes the state after it, also when it aborts the goal or marks it
\* succeeded; the controller then runs on with no active goal.
C13_CommandOncePerTick ==
    (ev.op = "update" /\ \A j \in Joints : ~Uncovered(j)) =>
        /\ Cardinality(CallsOf("updateCommand")) = 1
        /\ Cardinality(CallsOf("publishState")) = 1
        /\ \A m \in CallsOf("updateCommand") :
              /\ \A f \in {"checkPath", "checkGoal", "setAborted", "setSucceeded"} :
                    \A k \in CallsOf(f) : k < m
              /\ \A k \in CallsOf("publishState") : m < k
        /\ (CallsOf("setAborted") \cup CallsOf("setSucceeded") # {}) =>
              running /\ rt_active_goal_ = NoGoal /\ ~realtime_busy_

\* A tick that aborted the goal and went on to the command and the state.
C13_Witness ==
    /\ ev.op = "update"
    /\ \A j \in Joints : ~Uncovered(j)
    /\ CallsOf("setAborted") # {}
    /\ CallsOf("updateCommand") # {}
    /\ ev.was # NoGoal /\ status[ev.was] = "ABORTED"

\* C15: realtime_busy_ is true only while update executes: it is false
\* after every return of update, the early return on a sampling failure
\* included.
C15_BusyOnlyWhileUpdating == ~realtime_busy_

\* C19: once a joint has passed the goal-tolerance check of the active goal
\* (its flag is set for that goal), a later failure of that joint's check,
\* after the grace window, does not abort the goal.
C19_FlaggedJointCannotAbort ==
    ev.op = "update" =>
        \A k \in CallIndices :
            (ev.calls[k].f = "setAborted" /\ ev.calls[k].code = "GOAL_TOLERANCE_VIOLATED")
                => ev.calls[k].g \notin passed[ev.calls[k].j]

\* Call k of the tick just made is a failed tolerance check that aborts a
\* goal with a payload: a path check, or a goal check outside the grace window.
WouldAbort(k) ==
    \/ IsCall(k, "checkPath", "FAIL")
    \/ /\ IsCall(k, "checkGoal", "FAIL")
       /\ ~InGrace(time_data_.uptime, SampledSegment(ev.calls[k].j))

\* A tick whose failed check falls on a goal without result payload changes
\* nothing of the goal: no fault, the same active goal, no transition, and no
\* flag cleared.
C14_MissingPayloadStep ==
    (ev'.op = "update" /\ \E k \in 1..Len(ev'.calls) :
                              WouldAbort(k)' /\ ~preallocated_result_[ev'.calls[k].g]) =>
        /\ ~faulted'
        /\ rt_active_goal_' = rt_active_goal_
        /\ status' = status
        /\ \A j \in Joints : successful_joint_traj_[j] => successful_joint_traj_'[j]

\* C14: with the result payload of the active goal missing, a tolerance
\* violation that would abort the goal does not dereference the payload and is
\* a no-op for the goal: it stays the active goal and its flags stay as they
\* are, on the path-tolerance branch and on the goal-tolerance branch.
C14_MissingPayloadIsNoOp == [][C14_MissingPayloadStep]_vars

\* The last segment of joint j in the trajectory exchange.
LastSegment(j) ==
    curr_trajectory_box_.traj[j][Len(curr_trajectory_box_.traj[j])]

\* Goal g is ACTIVE, every joint's trajectory ends with a segment of g, and
\* the grace windows of all of them end within the modelled time.
Supervised(g) ==
    /\ status[g] = "ACTIVE"
    /\ \A j \in Joints :
          /\ Len(curr_trajectory_box_.traj[j]) > 0
          /\ LastSegment(j).gh = g
          /\ LastSegment(j).end + LastSegment(j).tol.goal_time_tolerance <= MaxUptime

\* C18: with update called in every cycle, an accepted goal whose trajectory
\* ends, for every joint, with a segment of that goal reaches a terminal
\* state: it does not stay ACTIVE once uptime has passed endTime +
\* goal_time_tolerance of all joints.
C18_AcceptedGoalTerminates ==
    \A g \in GoalIds : Supervised(g) ~> (status[g] \in TerminalStates)

\* A goal that waited in its grace window and was ended by a tick at or
\* after the end of the grace windows of all joints.
C18_Witness ==
    /\ ev.op = "update" /\ ev.was # NoGoal
    /\ status[ev.was] \in {"ABORTED", "SUCCEEDED"}
    /\ curr_trajectory_box_.id = ev.was
    /\ \A j \in Joints :
          /\ LastSegment(j).gh = ev.was
          /\ LastSegment(j).tol.goal_time_tolerance > 0
          /\ time_data_.uptime >= LastSegment(j).end + LastSegment(j).tol.goal_time_tolerance

\* C12: update fetches the trajectory before it writes the advanced uptime,
\* so that, however goalCB interleaves with the tick, a joint is never sampled
\* at an uptime before the one its trajectory was built to start from, and
\* every sample finds a segment.
C12_FetchBeforeUptime ==
    /\ rt.pc = "time" => rt.traj # << >> /\ rt.uptime = 0
    /\ rt.pc = "sample" =>
          /\ rt.uptime >= rt.planned
          /\ sample(rt.traj[rt.i], rt.uptime) <= Len(rt.traj[rt.i])
    /\ rt.pc = "idle" => ~realtime_busy_

\* goalCB has put a new trajectory into the exchange after the tick fetched
\* the old one and before the tick advanced the uptime.
C12_Witness ==
    /\ rt.pc = "time"
    /\ nrt.pc = "preempt"
    /\ curr_trajectory_box_.traj # rt.traj
    /\ nrt.planned = time_data_.uptime + time_data_.period
    /\ time_data_.uptime > 0

\* C16: with goalCB interleaved between the reads and writes of update, the
\* feedback step never goes through a null rt_active_goal_: the goal it found
\* non-null is the goal whose feedback payload it then writes and the goal it
\* emits the feedback of.
C16_FeedbackToCheckedGoal ==
    /\ ~faulted
    /\ rt.written \subseteq {rt.goal}
    /\ ev.op = "rt_feedback_emit" =>
          ev.calls = << Call("setFeedback", 0, ev.goal, "NONE") >>

\* A goal that goalCB preempted is not aborted as well.
C17_NotAbortedAfterPreempt ==
    \A g \in GoalIds :
        /\ nTerminal[g] <= 1
        /\ (ev.op = "rt_check" /\ CallsOf("setAborted") # {}) => status[ev.goal] = "ABORTED"

\* A goal that goalCB preempted is not marked succeeded as well.
C17_NotSucceededAfterPreempt ==
    ev.op = "rt_succeed" => status[ev.goal] = "SUCCEEDED"

\* A goal is not marked SUCCEEDED on flags set for another goal.
C17_NotSucceededOnStaleFlags ==
    \A g \in GoalIds :
        status[g] = "SUCCEEDED" => \A j \in Joints : g \in passed[j]

\* C17: with goalCB interleaved between the reads and writes of update, update
\* gives no goal a terminal transition it should not get: a goal preempted
\* after the identity test is not also aborted, and a goal made active between
\* the loop over the joints and the completion test is not marked SUCCEEDED on
\* the flags of the goal before it; nor is a goal preempted after the copy of
\* rt_active_goal_ also set succeeded, or one aborted or succeeded also canceled.
C17_NoWrongTerminalTransition ==
    /\ C17_NotAbortedAfterPreempt
    /\ C17_NotSucceededAfterPreempt
    /\ C17_NotSucceededOnStaleFlags

====
